---- MODULE Spec2Model ----
(***************************************************************************)
(* Model of dsb3/steps/resample_lungs.py: the step that resamples CT       *)
(* scans, segments the lung wings slice by slice, crops every scan to one  *)
(* bounding box and writes the arrays plus the out.json metadata.          *)
(*                                                                         *)
(* Numbers are exact integers and rationals (numerator, denominator);      *)
(* np.round is round-half-to-even, int() truncates.  Sizes are scaled      *)
(* down: the step's parameters (512 px, 64 slices, 7 CPUs) become the      *)
(* small bounds below.                                                     *)
(***************************************************************************)
EXTENDS Integers, Sequences, FiniteSets, TLC

\* ------------------------------------------------------------------ bounds
MaxPatients == 3      \* pipe.n_patients ranges over 0..MaxPatients
MaxCPUs     == 2      \* pipe.n_CPUs ranges over 1..MaxCPUs
MaxBatch    == 2      \* batch_size ranges over 1..MaxBatch
MaxDepth    == 3      \* raw scans have 2..MaxDepth slices
MaxDim      == 4      \* raw in-plane sizes range over 2..MaxDim
MaxSpacing  == 2      \* spacings (mm) range over 1..MaxSpacing
MaxBuffer   == 1      \* bounding_box_buffer_yx_px entries range over 0..MaxBuffer
ImgSize     == 4      \* config['image_shape'] of the checkpoint is ImgSize x ImgSize
SegMax      == 8      \* seg_max_shape_yx parameter is [SegMax, SegMax]
RsMaxDim     == 4     \* round trips: array sizes range over 2..RsMaxDim
RsMaxSpacing == 3     \* round trips: spacings range over 1..RsMaxSpacing
MaxSlices    == 3     \* load_scan: slice sets have 2..MaxSlices slices
ClipProbe    == 2     \* voxel values within ClipProbe of each boundary

\* ------------------------------------------------------- program constants
MinContourArea   == 3
MinContourPoints == 3
PerMm            == 10   \* PixelSpacing values are counted in tenths of a mm
MinPixelSpacing  == 1    \* 0.1 mm
MaxPixelSpacing  == 50   \* 5 mm

\* ----------------------------------------------------------------- numbers
Max2(a, b) == IF a >= b THEN a ELSE b
Min2(a, b) == IF a <= b THEN a ELSE b

SetMin(S) == CHOOSE m \in S : \A e \in S : m <= e
SetMax(S) == CHOOSE m \in S : \A e \in S : m >= e

\* min(...) and max(...) of a Python list
RECURSIVE ListMin(_)
ListMin(s) == IF Len(s) = 1 THEN s[1] ELSE Min2(s[1], ListMin(Tail(s)))
RECURSIVE ListMax(_)
ListMax(s) == IF Len(s) = 1 THEN s[1] ELSE Max2(s[1], ListMax(Tail(s)))

\* int(np.ceil(a / b)) for a >= 0, b >= 1
CeilDiv(a, b) == (a + b - 1) \div b

\* int(num / den) for num >= 0, den >= 1
TruncDiv(num, den) == num \div den

\* np.round(num / den): round half to even
RoundHalfEven(num, den) ==
    LET q == num \div den
        r == num % den
    IN  IF 2 * r < den THEN q
        ELSE IF 2 * r > den THEN q + 1
        ELSE IF q % 2 = 0 THEN q ELSE q + 1

Range(s) == {s[i] : i \in 1..Len(s)}

\* -------------------------------------------------------------- resampling
\* zoom(array, resize_factor): the output shape is round(shape * factor),
\* the factor being new_shape / shape.  (An empty array is never zoomed:
\* resize_and_interpolate_array_raises.)
interpolate_array(shape, new_shape) ==
    [i \in 1..3 |-> RoundHalfEven(shape[i] * new_shape[i], shape[i])]

\* new_shape / img_array.shape is 0 / 0 = nan on an axis of size 0, and zoom
\* cannot round nan to an output size
resize_and_interpolate_array_raises(shape) == \E i \in 1..3 : shape[i] = 0

\* new_shape with the two spacings exchanged
resize_and_interpolate_array_swapped(shape, old_spacing, new_spacing) ==
    LET new_shape == [i \in 1..3 |->
                        RoundHalfEven(shape[i] * new_spacing[i], old_spacing[i])]
    IN  interpolate_array(shape, new_shape)

resize_and_interpolate_array(shape, old_spacing, new_spacing) ==
    LET new_shape == [i \in 1..3 |->
                        RoundHalfEven(shape[i] * old_spacing[i], new_spacing[i])]
    IN  interpolate_array(shape, new_shape)

\* ------------------------------------------------------------ normalizing
HU_tissue_range == <<-1000, 400>>

Int16Min == -(2^15)
Int16Max == 2^15 - 1

\* the value an int16 element holds after an arithmetic result x
Wrap16(x) == ((x - Int16Min) % 2^16) + Int16Min

\* clip_HU_range_int16 on one element v of the int16 array.  The range's
\* bounds are Python ints that fit int16, so img_array - lo is an int16
\* array and the difference wraps.
clip_HU_range_int16(v, range) ==
    LET sub     == Wrap16(v - range[1])
        clipped == IF sub > range[2] - range[1] THEN Wrap16(range[2] - range[1]) ELSE sub
        floored == IF clipped < 0 THEN 0 ELSE clipped
    IN  Wrap16(floored)

\* ------------------------------------------------------------ segmentation
image_shape == <<ImgSize, ImgSize>>

\* A contour found by cv2.findContours in the thresholded prediction of one
\* slice, in working-resolution pixels: its area, its number of points and
\* the extrema of its points.
Contour(a, n, y0, y1, x0, x1) ==
    [area |-> a, npts |-> n, min_y |-> y0, max_y |-> y1, min_x |-> x0, max_x |-> x1]

UpperLeft  == Contour(3, 4, 0, 1, 1, 2)
LowerRight == Contour(4, 4, ImgSize - 2, ImgSize - 1, ImgSize - 3, ImgSize - 1)
TooSmall   == Contour(2, 4, 0, ImgSize - 1, 0, ImgSize - 1)
TooFew     == Contour(3, 2, 0, ImgSize - 1, 0, ImgSize - 1)

\* the contours of one slice's prediction: none, only contours that are
\* dropped, and one or two lung wings with or without such contours
Predictions ==
    { {}, {TooSmall, TooFew}, {UpperLeft, TooSmall}, {LowerRight, TooFew},
      {UpperLeft, LowerRight} }

\* seg_preprocessing: the working-resolution extent of the scan and whether
\* writing the resized slice into the embedding raises.  cv2.resize takes
\* dsize = (width, height), so the resized slice has shape
\* (crop_coords_yx[1], crop_coords_yx[0]).
SegCropCoords(shape, seg_max) ==
    [i \in 1..2 |-> TruncDiv(shape[i + 1] * image_shape[i], seg_max[i])]

seg_preprocessing_raises(shape, seg_max) ==
    \/ \E i \in 1..2 : seg_max[i] = 0
    \/ LET cc == SegCropCoords(shape, seg_max)
       IN  \/ \E i \in 1..2 : cc[i] = 0
           \/ \E i \in 1..2 : cc[i] > image_shape[i]
           \/ cc[1] # cc[2]

\* get_crop_idx_yx: the rectangle of one slice, scaled back to the scan, or
\* the empty list.  invers_scale_yx[i] is seg_max[i] / image_shape[i].
get_crop_idx_yx(pred, crop_coords, seg_max) ==
    LET kept == {c \in pred : ~(c.area < MinContourArea) /\ ~(c.npts < MinContourPoints)}
    IN  IF kept = {} THEN <<>>
        ELSE LET min_y == Max2(0, SetMin({c.min_y : c \in kept}))
                 max_y == Min2(SetMax({c.max_y : c \in kept}), crop_coords[1])
                 min_x == Max2(0, SetMin({c.min_x : c \in kept}))
                 max_x == Min2(SetMax({c.max_x : c \in kept}), crop_coords[2])
             IN  << TruncDiv(min_y * seg_max[1], image_shape[1]),
                    TruncDiv(max_y * seg_max[1], image_shape[1]),
                    TruncDiv(min_x * seg_max[2], image_shape[2]),
                    TruncDiv(max_x * seg_max[2], image_shape[2]) >>

\* the crop box clamped with shape[0], shape[1], as the fallback does
BoundBoxCoordsDepthRows(coords_list, shape, buffer) ==
    LET layers_coords == [x \in 1..4 |-> [k \in 1..Len(coords_list) |-> coords_list[k][x]]]
    IN  IF \A x \in 1..4 : Len(layers_coords[x]) > 0
        THEN << Max2(0, ListMin(layers_coords[1]) - buffer[1]),
                Min2(shape[1], ListMax(layers_coords[2]) + buffer[1]),
                Max2(0, ListMin(layers_coords[3]) - buffer[2]),
                Min2(shape[2], ListMax(layers_coords[4]) + buffer[2]) >>
        ELSE << 0, shape[1], 0, shape[2] >>

\* The crop box of process_junk, lines 120-128.
BoundBoxCoords(coords_list, shape, buffer) ==
    LET layers_coords == [x \in 1..4 |-> [k \in 1..Len(coords_list) |-> coords_list[k][x]]]
    IN  IF \A x \in 1..4 : Len(layers_coords[x]) > 0
        THEN << Max2(0, ListMin(layers_coords[1]) - buffer[1]),
                Min2(shape[2], ListMax(layers_coords[2]) + buffer[1]),
                Max2(0, ListMin(layers_coords[3]) - buffer[2]),
                Min2(shape[3], ListMax(layers_coords[4]) + buffer[2]) >>
        ELSE << 0, shape[1], 0, shape[2] >>

NoLungWingsFound(coords_list) == Len(coords_list) = 0

\* every flush opening out.json afresh
FlushModeAlwaysWrite(jc) == "w"

\* mode of pipe.save_json in process_junk
FlushMode(jc) == IF jc = 0 THEN "w" ELSE "a"

\* pipe.save_json('out.json', ...): 'w' starts a fresh file, 'a' appends
save_json(store, recs, mode) == IF mode = "w" THEN recs ELSE store \cup recs

\* ------------------------------------------------------------------ state
VARIABLES
    pipe,        \* pipeline globals: n_CPUs, n_patients, raw scan of every patient
    params,      \* the parameters of run()
    pc,          \* position in run() / process_junk()
    tf_net,      \* the inference engine: number of loads and of closes
    junk_cnt,    \* loop variable of run()
    junks,       \* the patients_junk lists built so far, in order
    patients_json,        \* process_junk: (patient, resampled shape) per item
    pa_cnt,               \* process_junk: items of patients_json finished
    seg_max_shape_yx,     \* process_junk: the (reassigned) parameter
    crop_coords_seg_yx,   \* process_junk: working-resolution extent of the scan
    batch_cnt,            \* process_junk: loop variable of the batch loop
    crop_coords_z_list_yx_px, \* process_junk: rectangles of the slices so far
    evaluated,            \* layer_cnt of every get_crop_idx_yx call for the patient
    bound_box_coords_yx_px,   \* crop box of the patient finished last, or <<>>
    warned,               \* 'No lung wings found' logged for that patient
    saved_arrays,         \* patients whose array pipe.save_array has written
    out_json,             \* patients with a record in out.json
    flushes,              \* the pipe.save_json calls so far
    rs,          \* resampling there and back (resize_and_interpolate_array)
    hu,          \* one voxel through clip_HU_range_int16
    ls           \* the PixelSpacing values of a slice set through load_scan

pipeline_vars ==
    << pipe, params, pc, tf_net, junk_cnt, junks, patients_json, pa_cnt,
       seg_max_shape_yx, crop_coords_seg_yx, batch_cnt, crop_coords_z_list_yx_px,
       evaluated, bound_box_coords_yx_px, warned, saved_arrays, out_json, flushes >>

vars == << pipeline_vars, rs, hu, ls >>

rs_idle == [pc |-> "idle"]
hu_idle == [pc |-> "idle"]
ls_idle == [pc |-> "idle"]

\* ------------------------------------------------------------------- inputs
Isotropic(S) == {<<a, b, b>> : a \in S, b \in S}

RawScan(shape, spacing, readable) ==
    [shape |-> shape, spacing |-> spacing, readable |-> readable]

\* scans of the run scenarios: a square scan, a scan with rows # columns,
\* and a scan whose file cannot be read
RunScans ==
    { RawScan(<<2, MaxDim, MaxDim>>, <<1, 1, 1>>, TRUE),
      RawScan(<<2, MaxDim, 2>>, <<1, 1, 1>>, TRUE),
      RawScan(<<2, MaxDim, MaxDim>>, <<1, 1, 1>>, FALSE) }

\* scans of the segmentation scenarios
SegScans ==
    { RawScan(<<d, r, c>>, <<1, s, s>>, TRUE) :
        d \in 2..MaxDepth, r \in 2..MaxDim, c \in 2..MaxDim, s \in 1..MaxSpacing }

Params(sp, buf, dt, ck, bs) ==
    [ new_spacing_zyx |-> sp, bounding_box_buffer_yx_px |-> buf, data_type |-> dt,
      checkpoint_exists |-> ck, batch_size |-> bs, seg_max_shape_yx |-> <<SegMax, SegMax>> ]

PipelineStart ==
    /\ pc = "run"
    /\ tf_net = [loads |-> 0, closes |-> 0]
    /\ junk_cnt = 0
    /\ junks = <<>>
    /\ patients_json = <<>>
    /\ pa_cnt = 0
    /\ seg_max_shape_yx = params.seg_max_shape_yx
    /\ crop_coords_seg_yx = <<0, 0>>
    /\ batch_cnt = 0
    /\ crop_coords_z_list_yx_px = <<>>
    /\ evaluated = <<>>
    /\ bound_box_coords_yx_px = <<>>
    /\ warned = FALSE
    /\ saved_arrays = {}
    /\ out_json = {}
    /\ flushes = <<>>
    /\ rs = rs_idle
    /\ hu = hu_idle
    /\ ls = ls_idle

\* whole runs over a population of up to MaxPatients patients
Init ==
    /\ \E n \in 0..MaxPatients, cpus \in 1..MaxCPUs :
         \E raw \in [1..n -> RunScans] :
            pipe = [n_CPUs |-> cpus, n_patients |-> n, raw |-> raw]
    /\ \E s \in 1..MaxSpacing, dt \in {"int16", "float32"}, ck \in BOOLEAN,
          bs \in 1..MaxBatch :
            params = Params(<<s, s, s>>, <<MaxBuffer, MaxBuffer>>, dt, ck, bs)
    /\ PipelineStart

\* runs over one patient, with every scan, spacing, buffer and batch size
InitSeg ==
    /\ \E scan \in SegScans :
         pipe = [n_CPUs |-> 1, n_patients |-> 1, raw |-> [p \in 1..1 |-> scan]]
    /\ \E sp \in Isotropic(1..MaxSpacing), by \in 0..MaxBuffer, bx \in 0..MaxBuffer,
          bs \in 1..MaxBatch :
            params = Params(sp, <<by, bx>>, "int16", TRUE, bs)
    /\ PipelineStart

\* ---------------------------------------------------------------------- run
\* n_junks with the quotient floored (integer division before np.ceil)
NJunksFloored(n, n_threads) == n \div n_threads

\* n_junks = int(np.ceil(pipe.n_patients / n_threads))
NJunks(n, n_threads) == CeilDiv(n, n_threads)

\* the inner loop of run(): patient_cnt = n_threads * junk_cnt + in_junk_cnt,
\* left at the first patient_cnt >= n_patients; patient k is pipe.patients[k - 1]
PatientsJunk(jc, n, n_threads) ==
    LET cnts == [k \in 1..n_threads |-> n_threads * jc + (k - 1)]
        in_range(c) == ~(c >= n)
    IN  [k \in 1..Len(SelectSeq(cnts, in_range)) |-> cnts[k] + 1]

\* run(), lines 48-57: validation, then tf_tools.load_network
RunStart ==
    /\ pc = "run"
    /\ IF ~(params.data_type \in {"float32", "int16"}) \/ ~params.checkpoint_exists
       THEN /\ pc' = "config_error"
            /\ UNCHANGED tf_net
       ELSE /\ pc' = "junk"
            /\ tf_net' = [tf_net EXCEPT !.loads = @ + 1]
    /\ UNCHANGED << pipe, params, junk_cnt, junks, patients_json, pa_cnt,
                    seg_max_shape_yx, crop_coords_seg_yx, batch_cnt,
                    crop_coords_z_list_yx_px, evaluated, bound_box_coords_yx_px,
                    warned, saved_arrays, out_json, flushes, rs, hu, ls >>

\* run(), lines 58-66: build patients_junk and call process_junk
BuildJunk ==
    /\ pc = "junk"
    /\ junk_cnt < NJunks(pipe.n_patients, pipe.n_CPUs)
    /\ junks' = Append(junks, PatientsJunk(junk_cnt, pipe.n_patients, pipe.n_CPUs))
    /\ seg_max_shape_yx' = params.seg_max_shape_yx
    /\ pc' = "process_junk"
    /\ UNCHANGED << pipe, params, tf_net, junk_cnt, patients_json, pa_cnt,
                    crop_coords_seg_yx, batch_cnt, crop_coords_z_list_yx_px,
                    evaluated, bound_box_coords_yx_px, warned, saved_arrays,
                    out_json, flushes, rs, hu, ls >>

\* run(), lines 67-68: the loop is over, close the session
CloseNetwork ==
    /\ pc = "junk"
    /\ ~(junk_cnt < NJunks(pipe.n_patients, pipe.n_CPUs))
    /\ tf_net' = [tf_net EXCEPT !.closes = @ + 1]
    /\ pc' = "done"
    /\ UNCHANGED << pipe, params, junk_cnt, junks, patients_json, pa_cnt,
                    seg_max_shape_yx, crop_coords_seg_yx, batch_cnt,
                    crop_coords_z_list_yx_px, evaluated, bound_box_coords_yx_px,
                    warned, saved_arrays, out_json, flushes, rs, hu, ls >>

\* ------------------------------------------------------------- process_junk
\* process_patient raises when the scan cannot be read, and for every
\* data_type but 'int16' (line 148 reads the unassigned name 'array')
process_patient_raises(scan, data_type) ==
    \/ ~scan.readable
    \/ data_type # "int16"

\* The loaders return int16 arrays; lines 147-148 would convert 'array', not
\* img_array_zyx, and zoom keeps the dtype of its input.
process_patient(patient, scan, new_spacing_zyx) ==
    [ patient |-> patient,
      shape |-> resize_and_interpolate_array(scan.shape, scan.spacing, new_spacing_zyx),
      dtype |-> "int16" ]

\* clip_HU_range: the variant chosen by the dtype of the array
clip_HU_range(dtype) ==
    IF dtype = "int16" THEN "clip_HU_range_int16"
    ELSE IF dtype = "float32" THEN "zero_center(normalize_HU_range_float)"
    ELSE "ValueError"

\* process_junk, lines 80-82: Parallel(process_patient) over the junk; an
\* exception of any task leaves process_junk and run()
Ingest ==
    /\ pc = "process_junk"
    /\ LET patients_junk == junks[Len(junks)]
       IN  IF \E k \in 1..Len(patients_junk) :
                 process_patient_raises(pipe.raw[patients_junk[k]], params.data_type)
           THEN /\ pc' = "failed"
                /\ UNCHANGED << patients_json, pa_cnt >>
           ELSE /\ patients_json' =
                      [k \in 1..Len(patients_junk) |->
                          process_patient(patients_junk[k], pipe.raw[patients_junk[k]],
                                          params.new_spacing_zyx)]
                /\ pa_cnt' = 0
                /\ pc' = "patient"
    /\ UNCHANGED << pipe, params, tf_net, junk_cnt, junks, seg_max_shape_yx,
                    crop_coords_seg_yx, batch_cnt, crop_coords_z_list_yx_px,
                    evaluated, bound_box_coords_yx_px, warned, saved_arrays,
                    out_json, flushes, rs, hu, ls >>

\* seg_max_shape_yx = [int(seg_max_shape_yx[i] / resampled spacing[i + 1])]
SegMaxShape(seg_max, spacing_zyx) ==
    << TruncDiv(seg_max[1], spacing_zyx[2]), TruncDiv(seg_max[2], spacing_zyx[3]) >>

\* process_junk, lines 85-103: the next item of patients_json up to the
\* batch loop; seg_preprocessing may raise
PatientPrep ==
    /\ pc = "patient"
    /\ pa_cnt < Len(patients_json)
    /\ LET shape   == patients_json[pa_cnt + 1].shape
           seg_max == SegMaxShape(seg_max_shape_yx, params.new_spacing_zyx)
       IN  /\ seg_max_shape_yx' = seg_max
           /\ IF seg_preprocessing_raises(shape, seg_max)
              THEN /\ pc' = "failed"
                   /\ UNCHANGED crop_coords_seg_yx
              ELSE /\ pc' = "batch"
                   /\ crop_coords_seg_yx' = SegCropCoords(shape, seg_max)
    /\ batch_cnt' = 0
    /\ crop_coords_z_list_yx_px' = <<>>
    /\ evaluated' = <<>>
    /\ bound_box_coords_yx_px' = <<>>
    /\ warned' = FALSE
    /\ UNCHANGED << pipe, params, tf_net, junk_cnt, junks, patients_json, pa_cnt,
                    saved_arrays, out_json, flushes, rs, hu, ls >>

\* get_crop_idx_yx called for every slot of the batch
LayersInBatchAllSlots(z_crop_idx, bs) == bs

\* number of slots of a batch that get_crop_idx_yx is called for
LayersInBatch(z_crop_idx, bs) == z_crop_idx[2] - z_crop_idx[1]

\* process_junk, lines 104-118: one batch.  The network returns a prediction
\* for every slot of the batch, sentinel-padded slots included.
SegBatch ==
    /\ pc = "batch"
    /\ LET depth      == patients_json[pa_cnt + 1].shape[1]
           bs         == params.batch_size
           n_batches  == CeilDiv(depth, bs)
           z_crop_idx == << batch_cnt * bs, Min2((batch_cnt + 1) * bs, depth) >>
           n_layers   == LayersInBatch(z_crop_idx, bs)
       IN  /\ batch_cnt < n_batches
           /\ \E prediction \in [1..bs -> Predictions] :
                LET coords == [l \in 1..n_layers |->
                                 get_crop_idx_yx(prediction[l], crop_coords_seg_yx,
                                                 seg_max_shape_yx)]
                    found(c) == c # <<>>
                IN  /\ crop_coords_z_list_yx_px' =
                          crop_coords_z_list_yx_px \o SelectSeq(coords, found)
                    /\ evaluated' =
                          evaluated \o [l \in 1..n_layers |-> (l - 1) + bs * batch_cnt]
           /\ batch_cnt' = batch_cnt + 1
    /\ UNCHANGED << pipe, params, pc, tf_net, junk_cnt, junks, patients_json, pa_cnt,
                    seg_max_shape_yx, crop_coords_seg_yx, bound_box_coords_yx_px,
                    warned, saved_arrays, out_json, flushes, rs, hu, ls >>

\* process_junk, lines 119-138: crop box, pipe.save_array, record
Crop ==
    /\ pc = "batch"
    /\ LET item == patients_json[pa_cnt + 1]
       IN  /\ ~(batch_cnt < CeilDiv(item.shape[1], params.batch_size))
           /\ bound_box_coords_yx_px' =
                 BoundBoxCoords(crop_coords_z_list_yx_px, item.shape,
                                params.bounding_box_buffer_yx_px)
           /\ warned' = NoLungWingsFound(crop_coords_z_list_yx_px)
           /\ saved_arrays' = saved_arrays \cup {item.patient}
    /\ pa_cnt' = pa_cnt + 1
    /\ pc' = "patient"
    /\ UNCHANGED << pipe, params, tf_net, junk_cnt, junks, patients_json,
                    seg_max_shape_yx, crop_coords_seg_yx, batch_cnt,
                    crop_coords_z_list_yx_px, evaluated, out_json, flushes, rs, hu, ls >>

\* process_junk, line 139: pipe.save_json, then back in the loop of run()
Flush ==
    /\ pc = "patient"
    /\ ~(pa_cnt < Len(patients_json))
    /\ LET recs == {patients_json[k].patient : k \in 1..Len(patients_json)}
           mode == FlushMode(junk_cnt)
       IN  /\ out_json' = save_json(out_json, recs, mode)
           /\ flushes' = Append(flushes, [junk |-> junk_cnt, mode |-> mode,
                                          patients |-> recs, saved |-> saved_arrays])
    /\ junk_cnt' = junk_cnt + 1
    /\ pc' = "junk"
    /\ patients_json' = <<>>
    /\ pa_cnt' = 0
    /\ batch_cnt' = 0
    /\ crop_coords_z_list_yx_px' = <<>>
    /\ evaluated' = <<>>
    /\ bound_box_coords_yx_px' = <<>>
    /\ warned' = FALSE
    /\ UNCHANGED << pipe, params, tf_net, junks, seg_max_shape_yx,
                    crop_coords_seg_yx, saved_arrays, rs, hu, ls >>

\* ------------------------------------------- resampling there and back
PipelineIdle ==
    /\ pipe = [n_CPUs |-> 1, n_patients |-> 0, raw |-> <<>>]
    /\ params = Params(<<1, 1, 1>>, <<0, 0>>, "int16", TRUE, 1)
    /\ pc = "idle"
    /\ tf_net = [loads |-> 0, closes |-> 0]
    /\ junk_cnt = 0
    /\ junks = <<>>
    /\ patients_json = <<>>
    /\ pa_cnt = 0
    /\ seg_max_shape_yx = params.seg_max_shape_yx
    /\ crop_coords_seg_yx = <<0, 0>>
    /\ batch_cnt = 0
    /\ crop_coords_z_list_yx_px = <<>>
    /\ evaluated = <<>>
    /\ bound_box_coords_yx_px = <<>>
    /\ warned = FALSE
    /\ saved_arrays = {}
    /\ out_json = {}
    /\ flushes = <<>>

InitResample ==
    /\ PipelineIdle
    /\ hu = hu_idle
    /\ ls = ls_idle
    /\ \E shape \in [1..3 -> 2..RsMaxDim],
          A \in [1..3 -> 1..RsMaxSpacing], B \in [1..3 -> 1..RsMaxSpacing] :
            rs = [pc |-> "start", shape |-> shape, A |-> A, B |-> B,
                  there |-> <<>>, back |-> <<>>]

\* resize_and_interpolate_array(array, A, B)
ResampleThere ==
    /\ rs.pc = "start"
    /\ rs' = [rs EXCEPT !.pc = "there",
                        !.there = resize_and_interpolate_array(rs.shape, rs.A, rs.B)]
    /\ UNCHANGED << pipeline_vars, hu, ls >>

\* resize_and_interpolate_array(resampled, B, A)
ResampleBack ==
    /\ rs.pc = "there"
    /\ IF resize_and_interpolate_array_raises(rs.there)
       THEN rs' = [rs EXCEPT !.pc = "raised"]
       ELSE rs' = [rs EXCEPT !.pc = "back",
                             !.back = resize_and_interpolate_array(rs.there, rs.B, rs.A)]
    /\ UNCHANGED << pipeline_vars, hu, ls >>

NextResample == ResampleThere \/ ResampleBack

SpecResample == InitResample /\ [][NextResample]_vars

\* ------------------------------------------------------ clipping one voxel
HURanges ==
    { HU_tissue_range, <<0, HU_tissue_range[2]>>, <<HU_tissue_range[1], 0>>,
      <<HU_tissue_range[2], -HU_tissue_range[1]>>, <<-1024, 3071>> }

ProbeValues(range) ==
    LET around(x) == {y \in (x - ClipProbe)..(x + ClipProbe) :
                         y >= Int16Min /\ y <= Int16Max}
    IN  around(Int16Min) \cup around(Int16Max) \cup around(range[1])
           \cup around(range[2]) \cup around(Int16Max + range[1])
           \cup around(Int16Min + range[1]) \cup {-1200, 0}

InitClip ==
    /\ PipelineIdle
    /\ rs = rs_idle
    /\ ls = ls_idle
    /\ \E range \in HURanges :
         \E v \in ProbeValues(range) :
            hu = [pc |-> "start", range |-> range, v |-> v, out |-> 0]

\* clip_HU_range(img_array, HU_tissue_range) on an int16 array
ClipVoxel ==
    /\ hu.pc = "start"
    /\ hu' = [hu EXCEPT !.pc = "clipped", !.out = clip_HU_range_int16(hu.v, hu.range)]
    /\ UNCHANGED << pipeline_vars, rs, ls >>

NextClip == ClipVoxel

SpecClip == InitClip /\ [][NextClip]_vars

\* ------------------------------------------- load_scan: PixelSpacing repair
\* a PixelSpacing entry: a number (tenths of a mm), NaN, or a string
Num(v) == [kind |-> "num", val |-> v]
NaN    == [kind |-> "nan", val |-> 0]
Str    == [kind |-> "str", val |-> 0]

PixelSpacingValues ==
    { NaN, Str, Num(0), Num(7), Num(PerMm), Num(MaxPixelSpacing + PerMm) }

\* line 216 without its first test: the value is NaN, below 0.1 or above 5
SpacingException(x) ==
    \/ x.kind = "nan"
    \/ x.kind = "num" /\ (x.val < MinPixelSpacing \/ x.val > MaxPixelSpacing)

\* math.isnan(x) raises TypeError on a string, before isinstance(x, str)
isnan_raises(x) == x.kind = "str"

\* np.argmax(np.bincount(values)) where bincount bins the values truncated to
\* integers (mm): the smallest integer that occurs most often
ArgMaxBincount(values) ==
    LET bin(k)   == values[k].val \div PerMm
        count(b) == Cardinality({k \in 1..Len(values) : bin(k) = b})
        bins     == {bin(k) : k \in 1..Len(values)}
    IN  SetMin({b \in bins : \A c \in bins : count(b) >= count(c)})

\* np.bincount on the list of float spacings: numpy either refuses the cast
\* of float64 to int64 (TypeError, build "safe") or bins the truncated values
\* (build "unsafe"); np.argmax raises on the bincount of an empty list
bincount_raises(values, build) == build = "safe" \/ Len(values) = 0

\* load_scan, lines 212-220, from slice k and axis i on.  spacings holds the
\* PixelSpacing objects of the slices themselves, so an entry repaired
\* earlier is seen by the later cleaned_spacings.
RECURSIVE load_scan_spacings(_, _, _, _)
load_scan_spacings(spacings, k, i, build) ==
    IF k > Len(spacings) THEN [spacings |-> spacings, raised |-> FALSE]
    ELSE IF i > 2 THEN load_scan_spacings(spacings, k + 1, 1, build)
    ELSE IF isnan_raises(spacings[k][i]) THEN [spacings |-> spacings, raised |-> TRUE]
    ELSE IF ~SpacingException(spacings[k][i])
         THEN load_scan_spacings(spacings, k, i + 1, build)
    ELSE IF \E j \in 1..Len(spacings) : isnan_raises(spacings[j][i])
         THEN [spacings |-> spacings, raised |-> TRUE]
    ELSE LET valid(sp) == ~SpacingException(sp[i])
             kept      == SelectSeq(spacings, valid)
             cleaned_spacings == [j \in 1..Len(kept) |-> kept[j][i]]
         IN  IF bincount_raises(cleaned_spacings, build)
             THEN [spacings |-> spacings, raised |-> TRUE]
             ELSE load_scan_spacings(
                     [spacings EXCEPT ![k][i] = Num(PerMm * ArgMaxBincount(cleaned_spacings))],
                     k, i + 1, build)

InitScan ==
    /\ PipelineIdle
    /\ rs = rs_idle
    /\ hu = hu_idle
    /\ \E n \in 2..MaxSlices, build \in {"safe", "unsafe"} :
         \E spacings \in [1..n -> [1..2 -> PixelSpacingValues]] :
            ls = [pc |-> "start", build |-> build, raw |-> spacings, spacings |-> spacings]

\* get_img_array_dcom.load_scan, the loop of lines 213-220
LoadScan ==
    /\ ls.pc = "start"
    /\ LET res == load_scan_spacings(ls.spacings, 1, 1, ls.build)
       IN  ls' = [ls EXCEPT !.pc = IF res.raised THEN "raised" ELSE "repaired",
                            !.spacings = res.spacings]
    /\ UNCHANGED << pipeline_vars, rs, hu >>

NextScan == LoadScan

SpecScan == InitScan /\ [][NextScan]_vars

Next ==
    \/ RunStart
    \/ BuildJunk
    \/ Ingest
    \/ PatientPrep
    \/ SegBatch
    \/ Crop
    \/ Flush
    \/ CloseNetwork

Spec == Init /\ [][Next]_vars

SpecSeg == InitSeg /\ [][Next]_vars

\* ------------------------------------------------------------------ claims
Population == [k \in 1..pipe.n_patients |-> k]

RECURSIVE Flatten(_)
Flatten(ss) == IF ss = <<>> THEN <<>> ELSE Head(ss) \o Flatten(Tail(ss))

\* the patient whose crop box was recorded last, and the scan's dimensions
BoxRecorded == bound_box_coords_yx_px # <<>>
Depth == patients_json[pa_cnt].shape[1]
Rows  == patients_json[pa_cnt].shape[2]
Cols  == patients_json[pa_cnt].shape[3]

\* C1: in a run that passed validation the engine is loaded once before the
\* first junk and closed once after the last, on every exit path of run(),
\* the path where process_junk raises included.
C1_EngineScoped ==
    /\ Len(junks) > 0 => tf_net.loads = 1
    /\ tf_net.closes > 0 => pc = "done"
    /\ pc \in {"done", "failed"} => tf_net.loads = 1 /\ tf_net.closes = 1

\* C2: when a patient of a junk fails, the patients of that junk that were
\* already computed have their records in out.json, and the records of
\* earlier junks are still there.
C2_PeersFlushed ==
    pc = "failed" =>
        /\ \A p \in saved_arrays : p \in out_json
        /\ \A i \in 1..Len(flushes) : flushes[i].patients \subseteq out_json

\* C3: the junks partition the population: in population order, none skipped
\* or repeated, each of 1..n_CPUs patients, all patients once run() is done,
\* and process_junk has run once for each junk.
C3_JunksPartition ==
    /\ \A k \in 1..Len(Flatten(junks)) : Flatten(junks)[k] = k
    /\ Len(Flatten(junks)) <= pipe.n_patients
    /\ \A j \in 1..Len(junks) : Len(junks[j]) >= 1 /\ Len(junks[j]) <= pipe.n_CPUs
    /\ pc = "done" => /\ Flatten(junks) = Population
                      /\ junk_cnt = Len(junks)

C3_Witness ==
    /\ pc = "done"
    /\ Len(junks) >= 2
    /\ Len(junks[Len(junks)]) < pipe.n_CPUs

\* C4: one flush per processed junk, made when every patient of the junk is
\* cropped and saved; the first flush writes, the later ones append, and
\* after the run out.json holds the records of all junks.
C4_FlushPerJunk ==
    /\ Len(flushes) = junk_cnt
    /\ \A i \in 1..Len(flushes) :
          /\ flushes[i].junk = i - 1
          /\ flushes[i].patients = Range(junks[i])
          /\ flushes[i].patients \subseteq flushes[i].saved
          /\ flushes[i].mode = (IF i = 1 THEN "w" ELSE "a")
    /\ pc = "done" => /\ Len(flushes) = Len(junks)
                      /\ out_json = Range(Population)

C4_Witness ==
    /\ pc = "done"
    /\ Len(flushes) >= 2
    /\ Cardinality(out_json) = MaxPatients

\* C5: with at least one rectangle, the crop box is the extrema of the
\* rectangles widened by the buffer and clamped to [0, rows] and [0, cols].
C5_CropBoxFromRectangles ==
    (BoxRecorded /\ Len(crop_coords_z_list_yx_px) > 0) =>
        LET rects == Range(crop_coords_z_list_yx_px)
            buf   == params.bounding_box_buffer_yx_px
            lo(x, b)    == LET m == SetMin({r[x] : r \in rects}) - b
                           IN  IF m < 0 THEN 0 ELSE m
            hi(x, b, n) == LET m == SetMax({r[x] : r \in rects}) + b
                           IN  IF m > n THEN n ELSE m
        IN  bound_box_coords_yx_px =
                << lo(1, buf[1]), hi(2, buf[1], Rows), lo(3, buf[2]), hi(4, buf[2], Cols) >>

C5_Witness ==
    /\ BoxRecorded
    /\ Len(crop_coords_z_list_yx_px) >= 2
    /\ crop_coords_z_list_yx_px[1] # crop_coords_z_list_yx_px[2]
    /\ params.bounding_box_buffer_yx_px[2] > 0
    /\ bound_box_coords_yx_px[3] > 0
    /\ bound_box_coords_yx_px[4] < Cols
    /\ Depth # Rows

\* C6: with no rectangle on any slice, process_junk warns and records the
\* full in-plane extent (0, rows, 0, cols).
C6_FallbackFullExtent ==
    (BoxRecorded /\ Len(crop_coords_z_list_yx_px) = 0) =>
        /\ warned
        /\ bound_box_coords_yx_px = << 0, Rows, 0, Cols >>

\* C7: every recorded crop box has 0 <= y_min <= y_max < rows and
\* 0 <= x_min <= x_max < cols.
C7_BoxWithinScan ==
    BoxRecorded =>
        /\ 0 <= bound_box_coords_yx_px[1]
        /\ bound_box_coords_yx_px[1] <= bound_box_coords_yx_px[2]
        /\ bound_box_coords_yx_px[2] < Rows
        /\ 0 <= bound_box_coords_yx_px[3]
        /\ bound_box_coords_yx_px[3] <= bound_box_coords_yx_px[4]
        /\ bound_box_coords_yx_px[4] < Cols

\* C10: get_crop_idx_yx is evaluated once for each slice 0..D-1, in order,
\* and for no sentinel-padded slot.
C10_EverySliceOnce ==
    /\ \A k \in 1..Len(evaluated) : evaluated[k] = k - 1
    /\ pc = "batch" =>
          Len(evaluated) = Min2(batch_cnt * params.batch_size,
                                patients_json[pa_cnt + 1].shape[1])
    /\ BoxRecorded => Len(evaluated) = Depth

C10_Witness ==
    /\ BoxRecorded
    /\ Depth > params.batch_size
    /\ Depth % params.batch_size # 0
    /\ Len(crop_coords_z_list_yx_px) = Depth

\* C8 as stated: resampling from A to B and back from B to A gives an array
\* of the original shape, for every shape and every pair of spacings.
C8_RoundTripAnySpacing ==
    rs.pc \in {"back", "raised"} => rs.pc = "back" /\ rs.back = rs.shape

\* C8 as amended: the shape after each resampling is the nearest integer to
\* shape * old / new, and the round trip gives the original shape when B is
\* no coarser than A on every axis.
C8_RoundTripToFinerSpacing ==
    /\ rs.pc \in {"there", "back", "raised"} =>
          \A i \in 1..3 :
             LET d == rs.there[i] * rs.B[i] - rs.shape[i] * rs.A[i]
             IN  2 * d <= rs.B[i] /\ -2 * d <= rs.B[i]
    /\ (rs.pc \in {"back", "raised"} /\ \A i \in 1..3 : rs.B[i] <= rs.A[i]) =>
          rs.pc = "back" /\ rs.back = rs.shape

C8_Witness ==
    /\ rs.pc = "back"
    /\ \A i \in 1..3 : rs.B[i] < rs.A[i]
    /\ \E i \in 1..3 : (rs.shape[i] * rs.A[i]) % rs.B[i] # 0
    /\ rs.back = rs.shape

\* C9: the clipped element is v - lo clamped to [0, hi - lo], also when
\* v - lo is outside the int16 range.
C9_ClipIsClamp ==
    hu.pc = "clipped" =>
        LET lo == hu.range[1]
            hi == hu.range[2]
            d  == hu.v - lo
        IN  /\ hu.out = (IF d < 0 THEN 0 ELSE IF d > hi - lo THEN hi - lo ELSE d)
            /\ hu.out >= 0
            /\ hu.out <= hi - lo

\* C11: load_scan replaces every PixelSpacing entry that is NaN, not a
\* number, below 0.1 or above 5 by the most frequent valid value of its axis
\* over the slice set, and leaves every valid entry unchanged.
C11_SpacingRepair ==
    LET n          == Len(ls.raw)
        ok(x)      == x.kind = "num" /\ x.val >= MinPixelSpacing /\ x.val <= MaxPixelSpacing
        valids(i)  == {k \in 1..n : ok(ls.raw[k][i])}
        count(i, v) == Cardinality({k \in valids(i) : ls.raw[k][i] = v})
        mode(i, v) == /\ \E k \in valids(i) : ls.raw[k][i] = v
                      /\ \A k \in valids(i) : count(i, v) >= count(i, ls.raw[k][i])
    IN  (ls.pc \in {"repaired", "raised"} /\ \A i \in 1..2 : valids(i) # {}) =>
            /\ ls.pc = "repaired"
            /\ \A k \in 1..n, i \in 1..2 :
                  IF ok(ls.raw[k][i]) THEN ls.spacings[k][i] = ls.raw[k][i]
                                      ELSE mode(i, ls.spacings[k][i])

\* C12: for int16 and for float32, process_patient completes for every
\* patient whose scan can be read and returns the volume in that
\* representation, so that clip_HU_range applies the variant of data_type.
C12_EveryRepresentationProcessed ==
    /\ (pc = "failed" /\ patients_json = <<>>) =>
          \E k \in 1..Len(junks[Len(junks)]) : ~pipe.raw[junks[Len(junks)][k]].readable
    /\ \A k \in 1..Len(patients_json) :
          /\ patients_json[k].dtype = params.data_type
          /\ clip_HU_range(patients_json[k].dtype) =
                (IF params.data_type = "int16" THEN "clip_HU_range_int16"
                 ELSE "zero_center(normalize_HU_range_float)")

\* C13: the working resolution used for a patient is the configured
\* seg_max_shape_yx divided by the resampled in-plane spacing, truncated,
\* whatever the position of the patient in its junk.
C13_SegMaxShapePerPatient ==
    pc = "batch" =>
        seg_max_shape_yx =
            << params.seg_max_shape_yx[1] \div params.new_spacing_zyx[2],
               params.seg_max_shape_yx[2] \div params.new_spacing_zyx[3] >>

====
